---- MODULE Spec2Model ----
(***************************************************************************)
(* Event definition, registration and emission of the C++ bindings of the  *)
(* Web Tracing Framework (bindings/cpp/include/wtf/event.h).               *)
(*                                                                         *)
(* A 32-bit buffer entry is represented by the two's complement reading of *)
(* its bit pattern (16rFFFFFFFF is -1), so that every entry is a value of  *)
(* -2^31 .. 2^31-1.                                                        *)
(***************************************************************************)
EXTENDS Integers, Sequences, FiniteSets, TLC

(* ------------------------------ bounds --------------------------------- *)

\* Number of OS threads.
NumThreads == 2

\* Number of times the microsecond clock advances.
MaxTicks == 1

\* Number of 32-bit entries, over all buffers, beyond which events invoked
\* by the program and the enabling of a thread stop emitting.
MaxEntries == 6

\* Number of 32-bit entries, over all buffers, beyond which scope guards
\* stop emitting.
MaxScopeEntries == 10

\* Number of scope guards alive at a time, over all threads.
MaxGuards == 2

\* Budget of buffer entries, over all buffers, within which single arguments
\* are emitted.
MaxArgEntries == 3

\* Largest length of a name-spec, in characters, and largest number of types
\* of a type list, that argument signatures are materialized for.
MaxNameSpecLen == 5

MaxArity == 2

(* ------------------------- program constants --------------------------- *)

\* StandardEvents::kScopeLeaveEventId
kScopeLeaveEventId == 2

\* Wire-id of the standard event that Runtime::EnableCurrentThread emits
\* (create-zone, the first standard schema after scope-leave).
kCreateZoneEventId == 3

\* Initial value of EventDefinition::next_event_id_: user events begin at a
\* fixed offset above the reserved range.
kFirstUserEventId == 100

\* EventFlags::kInternal and EventFlags::kBuiltin
kInternal == 8

kBuiltin == 32

\* The null EventBuffer pointer; buffers are numbered from 1 in the order in
\* which the runtime created them.
NoBuf == 0

\* No thread (the registry mutex is free).
NoThread == 0

Threads == 1 .. NumThreads

(* ------------------------- declaration sites --------------------------- *)

\* kMasterEnable: the build defines WTF_ENABLE.
kMasterEnable == TRUE

\* A namespace is the sequence of the toggles (WTF_NAMESPACE_ENABLE,
\* WTF_NAMESPACE_DISABLE) of its enclosing namespaces, outermost first; the
\* sequence is empty where no enclosing namespace has a toggle.
GlobalNamespace == <<>>

DisabledNamespace == <<"off">>

EnabledInDisabledNamespace == <<"off", "on">>

Namespaces == {GlobalNamespace, DisabledNamespace, EnabledInDisabledNamespace}

\* A faulty lookup under which a namespace is enabled only if every enclosing
\* toggle is on; InnermostToggleDecides tells it from kWtfEnabledForNamespace.
kWtfEnabledForAllNamespaces(namespace) ==
  kMasterEnable /\ \A i \in 1 .. Len(namespace) : namespace[i] = "on"

\* kWtfEnabledForNamespace as name lookup finds it in a namespace: the
\* constant the innermost toggle declares, kMasterEnable where there is none.
\* WTF_NAMESPACE_ENABLE declares it as kMasterEnable, WTF_NAMESPACE_DISABLE
\* as false.
kWtfEnabledForNamespace(namespace) ==
  IF Len(namespace) = 0 THEN kMasterEnable
  ELSE IF namespace[Len(namespace)] = "on" THEN kMasterEnable
  ELSE FALSE

\* The event declarations of the instrumented program.  Each site declares
\* one event object (a static local at the call site), constructed at most
\* once.  name_spec is the site's name and argument names; namespace is
\* where the site is; kEnable is the parameterization
\* the site's macro selects there; ctor is the constructor overload the site
\* uses: "name_spec" draws the wire-id from NextEventId, "wire_id" passes it
\* explicitly (as the standard events do, the last site being one).
SiteDef ==
  << [kEnable |-> kWtfEnabledForNamespace(EnabledInDisabledNamespace),
      name_spec |-> "ShouldBeEnabled#E1",
      namespace |-> EnabledInDisabledNamespace,
      event_class |-> "kInstance", ArgTypes |-> <<"int32">>,
      ctor |-> "name_spec", flags |-> 0],
     [kEnable |-> kWtfEnabledForNamespace(GlobalNamespace),
      name_spec |-> "MacrosTest#Loop: i, limit",
      namespace |-> GlobalNamespace,
      event_class |-> "kScoped",   ArgTypes |-> <<"int32", "uint16">>,
      ctor |-> "name_spec", flags |-> 0],
     [kEnable |-> kWtfEnabledForNamespace(EnabledInDisabledNamespace),
      name_spec |-> "ShouldBeEnabled#InnerLoop0",
      namespace |-> EnabledInDisabledNamespace,
      event_class |-> "kScoped",   ArgTypes |-> <<>>,
      ctor |-> "name_spec", flags |-> 0],
     [kEnable |-> kWtfEnabledForNamespace(DisabledNamespace),
      name_spec |-> "ShouldBeDisalbed#E1",
      namespace |-> DisabledNamespace,
      event_class |-> "kInstance", ArgTypes |-> <<"int32">>,
      ctor |-> "name_spec", flags |-> 0],
     [kEnable |-> kWtfEnabledForNamespace(DisabledNamespace),
      name_spec |-> "ShouldBeDisabled#InnerLoop1",
      namespace |-> DisabledNamespace,
      event_class |-> "kScoped",   ArgTypes |-> <<"int32">>,
      ctor |-> "name_spec", flags |-> 0],
     [kEnable |-> kWtfEnabledForNamespace(GlobalNamespace),
      name_spec |-> "wtf.scope#leave",
      namespace |-> GlobalNamespace,
      event_class |-> "kInstance", ArgTypes |-> <<>>,
      ctor |-> "wire_id", flags |-> kInternal + kBuiltin] >>

Sites == 1 .. Len(SiteDef)

\* Wire-ids a caller passes to the constructor that takes the wire-id.
ExplicitWireIds == {kScopeLeaveEventId, kFirstUserEventId}

\* Argument values of the call sites, per argument type.
ArgValues(type) ==
  CASE type = "int32" -> {-1, 10}
    [] type = "uint32" -> {10}
    [] type = "int16" -> {-32768, -1, 10, 32767}
    [] type = "uint16" -> {10}
    [] type = "ascii" -> {"", "a", "b"}

\* The argument types.
ArgTypes == {"ascii", "uint16", "uint32", "int16", "int32"}

\* The values a caller passes for a type: for a string also the null pointer.
PassedValues(type) ==
  IF type = "ascii" THEN ArgValues(type) \cup {"null"} ELSE ArgValues(type)

\* All argument lists of a type list (of at most two types).
ArgLists(types) ==
  IF Len(types) = 0 THEN {<<>>}
  ELSE IF Len(types) = 1 THEN {<<a>> : a \in ArgValues(types[1])}
  ELSE {<<a, b>> : a \in ArgValues(types[1]), b \in ArgValues(types[2])}

\* The argument lists of all sites.
AllArgLists == UNION {ArgLists(SiteDef[s].ArgTypes) : s \in Sites}

(* ------------------------------ buffer --------------------------------- *)

\* A fresh EventBuffer: no entries, an empty string table.
NewEventBuffer == [entries |-> <<>>, string_table |-> <<>>]

\* EventBuffer::AddEntry: appends one 32-bit entry at the tail.
AddEntry(b, entry) == [b EXCEPT !.entries = Append(@, entry)]

\* EventBuffer::clear.
ClearBuffer(b) == [b EXCEPT !.entries = <<>>]

\* StringTable::GetStringId's result: 0 for the empty string, else the
\* 1-based insertion index of the string.
RECURSIVE IndexOf(_, _, _)
IndexOf(table, s, i) ==
  IF i > Len(table) THEN 0
  ELSE IF table[i] = s THEN i
  ELSE IndexOf(table, s, i + 1)

StringIdOf(table, s) ==
  IF s = "" THEN 0
  ELSE IF IndexOf(table, s, 1) # 0 THEN IndexOf(table, s, 1)
  ELSE Len(table) + 1

\* A faulty GetStringId that inserts the string on every call;
\* InterningIsIdempotent tells it from InternString.
InternStringAgain(table, s) == IF s = "" THEN table ELSE Append(table, s)

\* StringTable::GetStringId's effect on the table: inserts a string that is
\* neither empty nor present.
InternString(table, s) ==
  IF s = "" \/ IndexOf(table, s, 1) # 0 THEN table ELSE Append(table, s)

(* --------------------------- integer widths ---------------------------- *)

\* Largest and smallest two's complement readings of a 32-bit word.
Int32Max == 32767 * 65536 + 65535

Int32Min == (-Int32Max) - 1

\* The 32-bit word that follows w (16rFFFFFFFF, read as -1, is followed by 0).
NextWord32(w) == IF w = Int32Max THEN Int32Min ELSE w + 1

\* Conversion of an integer to uint16_t.
ToUint16(v) == v % 65536

(* ----------------------------- ArgTypeDef ------------------------------ *)

\* A faulty Emit that hands the null pointer to GetStringId as if it were a
\* string; EmptyOrNullWritesZero tells it from EmitAscii.
EmitAsciiUnchecked(b, value) ==
  AddEntry([b EXCEPT !.string_table = InternString(@, value)],
           StringIdOf(b.string_table, value))

\* ArgTypeDef<const char*>::Emit; "null" stands for the null pointer.
EmitAscii(b, value) ==
  IF value = "null"
  THEN AddEntry(b, 0)
  ELSE AddEntry([b EXCEPT !.string_table = InternString(@, value)],
                StringIdOf(b.string_table, value))

\* ArgTypeDef<uint16_t>::Emit
EmitUint16(b, value) == AddEntry(b, value)

\* ArgTypeDef<uint32_t>::Emit
EmitUint32(b, value) == AddEntry(b, value)

\* ArgTypeDef<int16_t>::Emit: the parameter is declared uint16_t.
EmitInt16(b, value) == AddEntry(b, ToUint16(value))

\* ArgTypeDef<int32_t>::Emit: the parameter is declared uint32_t, which keeps
\* the bit pattern.
EmitInt32(b, value) == AddEntry(b, value)

\* ArgTypeDef<T>::Emit, selected by the type T.
Emit(type, b, value) ==
  CASE type = "ascii" -> EmitAscii(b, value)
    [] type = "uint16" -> EmitUint16(b, value)
    [] type = "uint32" -> EmitUint32(b, value)
    [] type = "int16" -> EmitInt16(b, value)
    [] type = "int32" -> EmitInt32(b, value)

(* ------------------------------ EventIf -------------------------------- *)

\* EventIf::EmitArguments: emits the first argument, then the rest.
RECURSIVE EmitArguments(_, _, _)
EmitArguments(b, types, args) ==
  IF Len(args) = 0 THEN b
  ELSE EmitArguments(Emit(Head(types), b, Head(args)), Tail(types), Tail(args))

\* A faulty InvokeSpecific that puts the record in front of the entries the
\* buffer holds; EmissionsAppendAtTail tells it from InvokeSpecific.
InvokeSpecificAtHead(b, wire_id, timestamp, types, args) ==
  [b EXCEPT !.entries = <<wire_id, timestamp>> \o args \o @]

\* A faulty InvokeSpecific that writes the timestamp before the wire-id;
\* InvokeAppendsRecord tells it from InvokeSpecific.
InvokeSpecificTimestampFirst(b, wire_id, timestamp, types, args) ==
  EmitArguments(AddEntry(AddEntry(b, timestamp), wire_id), types, args)

\* A faulty InvokeSpecific that writes 0 where the timestamp belongs;
\* TimestampsDecreaseOnlyAtWrap tells it from InvokeSpecific.
InvokeSpecificNoTimestamp(b, wire_id, timestamp, types, args) ==
  EmitArguments(AddEntry(AddEntry(b, wire_id), 0), types, args)

\* EventIf<true>::InvokeSpecific: wire-id, timestamp, arguments.
InvokeSpecific(b, wire_id, timestamp, types, args) ==
  EmitArguments(AddEntry(AddEntry(b, wire_id), timestamp), types, args)

\* ScopedEventIf<true>::EnterSpecific
EnterSpecific(b, wire_id, timestamp, types, args) ==
  InvokeSpecific(b, wire_id, timestamp, types, args)

\* ScopedEventIf<true>::LeaveSpecific
LeaveSpecific(b, timestamp) ==
  AddEntry(AddEntry(b, kScopeLeaveEventId), timestamp)

\* A faulty Create that passes its two int arguments on in the wrong order;
\* OneDefinitionPerEvent tells it from CreateDefinition.
CreateDefinitionSwapped(wire_id, event_class, flags, name_spec, types) ==
  [wire_id |-> flags, event_class |-> event_class, flags |-> wire_id,
   name_spec |-> name_spec, ArgTypes |-> types]

\* EventDefinition::Create<ArgTypes...>
CreateDefinition(wire_id, event_class, flags, name_spec, types) ==
  [wire_id |-> wire_id, event_class |-> event_class, flags |-> flags,
   name_spec |-> name_spec, ArgTypes |-> types]

(* ------------------------- argument signature -------------------------- *)

\* Strings are sequences of characters here. The characters name-specs are
\* made of: a letter of the event name, the colon, the comma, the space and a
\* letter of an argument name.
NameSpecChars == {"A", ":", ",", " ", "x"}

\* All sequences over S of length at most n.
SeqsUpTo(S, n) == UNION {[1 .. k -> S] : k \in 0 .. n}

\* The type lists (template arguments) of at most MaxArity types.
TypeLists == SeqsUpTo({"int32", "ascii"}, MaxArity)

\* The decimal digits of an index.
IndexDigits(index) == CASE index = 0 -> <<"0">> [] index = 1 -> <<"1">>
                        [] index = 2 -> <<"2">> [] index = 3 -> <<"3">>

\* The part of the name-spec handed to ArgumentZipper as arg_names: what
\* follows the first colon, nothing if there is no colon.
RECURSIVE ArgNamesOf(_)
ArgNamesOf(name_spec) ==
  IF name_spec = <<>> THEN <<>>
  ELSE IF Head(name_spec) = ":" THEN Tail(name_spec)
  ELSE ArgNamesOf(Tail(name_spec))

\* arg_names advanced over leading spaces.
RECURSIVE SkipSpaces(_)
SkipSpaces(s) ==
  IF s # <<>> /\ Head(s) = " " THEN SkipSpaces(Tail(s)) ELSE s

\* The characters of s in front of its first comma.
RECURSIVE UpToComma(_)
UpToComma(s) ==
  IF s = <<>> \/ Head(s) = "," THEN <<>>
  ELSE <<Head(s)>> \o UpToComma(Tail(s))

\* arg_names advanced past the first comma of s (to the end if there is none).
RECURSIVE AfterComma(_)
AfterComma(s) ==
  IF s = <<>> THEN <<>>
  ELSE IF Head(s) = "," THEN Tail(s)
  ELSE AfterComma(Tail(s))

\* s without its trailing spaces.
RECURSIVE StripRight(_)
StripRight(s) ==
  IF s # <<>> /\ s[Len(s)] = " " THEN StripRight(SubSeq(s, 1, Len(s) - 1))
  ELSE s

\* A faulty ZipArgument that numbers the synthesized names from 1;
\* SignatureZipsNamesAndTypes tells it from ZipArgument.
ZipArgumentFromOne(output, index, next_arg_type, arg_names) ==
  IF SkipSpaces(arg_names) = <<>>
  THEN [output |-> Append(output, [type |-> next_arg_type,
                                   name |-> <<"a", "r", "g">> \o IndexDigits(index + 1)]),
        arg_names |-> <<>>]
  ELSE [output |-> Append(output, [type |-> next_arg_type,
                                   name |-> StripRight(UpToComma(SkipSpaces(arg_names)))]),
        arg_names |-> AfterComma(SkipSpaces(arg_names))]

\* EventDefinition::ZipArgument: appends the entry "<type> <name>" to the
\* output (entries are joined by ", " in the string), peeling the name from
\* arg_names or, if none is left, generating arg<index>. The result holds the
\* output and the advanced arg_names.
ZipArgument(output, index, next_arg_type, arg_names) ==
  IF SkipSpaces(arg_names) = <<>>
  THEN [output |-> Append(output, [type |-> next_arg_type,
                                   name |-> <<"a", "r", "g">> \o IndexDigits(index)]),
        arg_names |-> <<>>]
  ELSE [output |-> Append(output, [type |-> next_arg_type,
                                   name |-> StripRight(UpToComma(SkipSpaces(arg_names)))]),
        arg_names |-> AfterComma(SkipSpaces(arg_names))]

(* ------------------------------- state --------------------------------- *)

VARIABLES
  next_event_id_,      \* EventDefinition::next_event_id_, the atomic counter
  event_definitions_,  \* EventRegistry::event_definitions_
  mu_,                 \* EventRegistry::mu_: the thread that holds it
  events,              \* per site: the event object, once constructed
  ctor,                \* per thread: the registry call it is running
  snapshots,           \* the two latest results of GetEventDefinitions
  buffers,             \* the EventBuffers, in the order of their creation
  thread_buffer,       \* the runtime's table: thread -> its buffer
  tls,                 \* per thread: the thread-local EventBuffer pointer
  guards,              \* per thread: its stack of live AutoScope objects
  zip,                 \* the run of an argument-signature materializer
  clock,               \* the microsecond clock
  ticks,               \* how many times the clock has advanced
  last                 \* the operation performed by the latest step

vars == << next_event_id_, event_definitions_, mu_, events, ctor, snapshots, buffers,
           thread_buffer, tls, guards, zip, clock, ticks, last >>

registryVars ==
  << next_event_id_, event_definitions_, mu_, events, ctor, snapshots >>

bufferVars == << buffers, thread_buffer, tls >>

clockVars == << clock, ticks >>

\* Low 32 bits of the clock at process start.
ClockStarts == {0, -1}

NoCtor == [stage |-> "idle", site |-> 0, wire_id |-> 0]

\* No snapshot has been taken.
NoSnapshots == [previous |-> <<>>, latest |-> <<>>]

\* No scope guard.
NoGuard ==
  [site |-> 0, event_buffer_ |-> NoBuf, pc |-> "none", ctor_tls |-> NoBuf,
   enter_tls |-> NoBuf, enter_buf |-> NoBuf]

\* The latest operation: its name, the calling thread, the kEnable of the
\* event or guard it was called on (TRUE where there is none), whether it
\* changed a buffer, and the guard it entered or destroyed (NoGuard but for
\* AutoScopeIf::Enter and ~AutoScopeIf).
\* No materializer is running.
NoZip ==
  [pc |-> "none", name_spec |-> <<>>, types |-> <<>>, arg_names |-> <<>>,
   k |-> 0, output |-> <<>>]

NoLast ==
  [op |-> "none", thread |-> NoThread, kEnable |-> TRUE, wrote |-> FALSE,
   guard |-> NoGuard]

Op(op, t, s, wrote) ==
  [op |-> op, thread |-> t,
   kEnable |-> IF s \in Sites THEN SiteDef[s].kEnable ELSE TRUE,
   wrote |-> wrote, guard |-> NoGuard]

Init ==
  /\ next_event_id_ = kFirstUserEventId
  /\ event_definitions_ = <<>>
  /\ mu_ = NoThread
  /\ events = [s \in Sites |-> [constructed |-> FALSE, wire_id_ |-> 0]]
  /\ ctor = [t \in Threads |-> NoCtor]
  /\ snapshots = NoSnapshots
  /\ buffers = <<>>
  /\ thread_buffer = [t \in Threads |-> NoBuf]
  /\ tls = [t \in Threads |-> NoBuf]
  /\ guards = [t \in Threads |-> <<>>]
  /\ zip = NoZip
  /\ clock \in {[hi |-> 0, lo |-> l] : l \in ClockStarts}
  /\ ticks = 0
  /\ last = NoLast

\* PlatformGetTimestampMicros32: the clock truncated to 32 bits.
PlatformGetTimestampMicros32 == clock.lo

\* A faulty platform layer that keeps the buffer pointer in one slot shared
\* by all threads; ThreadsKeepToOwnBuffers tells it from
\* PlatformGetThreadLocalEventBuffer.
PlatformGetSharedEventBuffer(t) ==
  IF \E u \in Threads : tls[u] # NoBuf
  THEN tls[CHOOSE u \in Threads : tls[u] # NoBuf]
  ELSE NoBuf

\* PlatformGetThreadLocalEventBuffer
PlatformGetThreadLocalEventBuffer(t) == tls[t]

\* The thread is between two calls (it is not inside an event constructor).
Idle(t) == ctor[t].stage = "idle"

\* A site's static event object has not been constructed and no thread is
\* constructing it.
Unclaimed(s) ==
  /\ ~events[s].constructed
  /\ \A u \in Threads : ctor[u].site # s

\* Number of entries in the first k buffers.
RECURSIVE TotalEntries(_)
TotalEntries(k) ==
  IF k = 0 THEN 0 ELSE Len(buffers[k].entries) + TotalEntries(k - 1)

\* Number of live scope guards of the first k threads.
RECURSIVE TotalGuards(_)
TotalGuards(k) == IF k = 0 THEN 0 ELSE Len(guards[k]) + TotalGuards(k - 1)

\* An emission of n entries into buffer b stays within the bound max.
HasRoom(b, n, max) ==
  IF b = NoBuf THEN TRUE ELSE TotalEntries(Len(buffers)) + n <= max

(* ------------------------------ the clock ------------------------------ *)

Tick ==
  /\ ticks < MaxTicks
  /\ ticks' = ticks + 1
  /\ clock' = [hi |-> IF clock.lo = -1 THEN clock.hi + 1 ELSE clock.hi,
               lo |-> NextWord32(clock.lo)]
  /\ last' = NoLast
  /\ UNCHANGED << zip, registryVars, bufferVars, guards >>

(* ------------------------- event construction -------------------------- *)

\* EventDefinition::NextEventId: fetch_add(1) returns the old value.
NextEventId == next_event_id_

\* EventIf<true>(name_spec), ScopedEventIf<true>(name_spec): delegate to
\* EventIf(event_class, flags, name_spec), which draws NextEventId() and
\* delegates to the constructor that takes the wire-id.
EventCtorNameSpec(t, s) ==
  /\ Idle(t) /\ Unclaimed(s)
  /\ SiteDef[s].kEnable /\ SiteDef[s].ctor = "name_spec"
  /\ ctor' = [ctor EXCEPT ![t] =
                [stage |-> "add", site |-> s, wire_id |-> NextEventId]]
  /\ next_event_id_' = next_event_id_ + 1
  /\ last' = Op("EventIf", t, s, FALSE)
  /\ UNCHANGED << zip, event_definitions_, mu_, events, snapshots, bufferVars, guards,
                  clockVars >>

\* EventIf<true>(wire_id, event_class, flags, name_spec): stores wire_id_ and
\* goes on to register the definition.
EventCtorWireId(t, s, wire_id) ==
  /\ Idle(t) /\ Unclaimed(s)
  /\ SiteDef[s].kEnable /\ SiteDef[s].ctor = "wire_id"
  /\ ctor' = [ctor EXCEPT ![t] =
                [stage |-> "add", site |-> s, wire_id |-> wire_id]]
  /\ last' = Op("EventIf", t, s, FALSE)
  /\ UNCHANGED << zip, next_event_id_, event_definitions_, mu_, events, snapshots,
                  bufferVars, guards, clockVars >>

\* A faulty registry that puts a new definition in front of those it holds;
\* SnapshotsArePrefixes tells it from AddToRegistry.
AddToRegistryFront(definitions, definition) == <<definition>> \o definitions

\* What EventRegistry::AddEventDefinition does to event_definitions_: it
\* appends the definition.
AddToRegistry(definitions, definition) == Append(definitions, definition)

\* EventRegistry::AddEventDefinition, first half: takes mu_.
AddEventDefinitionLock(t) ==
  /\ ctor[t].stage = "add"
  /\ mu_ = NoThread
  /\ mu_' = t
  /\ ctor' = [ctor EXCEPT ![t].stage = "locked"]
  /\ last' = Op("lock", t, ctor[t].site, FALSE)
  /\ UNCHANGED << zip, next_event_id_, event_definitions_, events, snapshots,
                  bufferVars, guards, clockVars >>

\* EventRegistry::AddEventDefinition, second half: appends the definition
\* and releases mu_; the constructor returns.
AddEventDefinition(t) ==
  /\ ctor[t].stage = "locked"
  /\ mu_ = t
  /\ event_definitions_' =
       AddToRegistry(event_definitions_,
                     CreateDefinition(ctor[t].wire_id,
                                      SiteDef[ctor[t].site].event_class,
                                      SiteDef[ctor[t].site].flags,
                                      SiteDef[ctor[t].site].name_spec,
                                      SiteDef[ctor[t].site].ArgTypes))
  /\ mu_' = NoThread
  /\ events' = [events EXCEPT ![ctor[t].site] =
                  [constructed |-> TRUE, wire_id_ |-> ctor[t].wire_id]]
  /\ ctor' = [ctor EXCEPT ![t] = NoCtor]
  /\ last' = Op("AddEventDefinition", t, ctor[t].site, FALSE)
  /\ UNCHANGED << zip, next_event_id_, snapshots, bufferVars, guards, clockVars >>

\* EventRegistry::GetEventDefinitions, first half: takes mu_.
GetEventDefinitionsLock(t) ==
  /\ Idle(t)
  /\ mu_ = NoThread
  /\ mu_' = t
  /\ ctor' = [ctor EXCEPT ![t] = [stage |-> "snapshot", site |-> 0, wire_id |-> 0]]
  /\ last' = Op("lock", t, 0, FALSE)
  /\ UNCHANGED << zip, next_event_id_, event_definitions_, events, snapshots,
                  bufferVars, guards, clockVars >>

\* EventRegistry::GetEventDefinitions, second half: copies the definitions,
\* releases mu_ and returns the copy.
GetEventDefinitions(t) ==
  /\ ctor[t].stage = "snapshot"
  /\ mu_ = t
  /\ snapshots' = [previous |-> snapshots.latest, latest |-> event_definitions_]
  /\ mu_' = NoThread
  /\ ctor' = [ctor EXCEPT ![t] = NoCtor]
  /\ last' = Op("GetEventDefinitions", t, 0, FALSE)
  /\ UNCHANGED << zip, next_event_id_, event_definitions_, events, bufferVars,
                  guards, clockVars >>

\* The site of the static event object of StandardEvents::GetScopeLeaveEvent.
ScopeLeaveSite == 6

\* StandardEvents::GetScopeLeaveEvent, first call: constructs the static
\* event object with the fixed id (later calls return it as it is).
GetScopeLeaveEvent(t) ==
  EventCtorWireId(t, ScopeLeaveSite, kScopeLeaveEventId)

\* A faulty serializer that goes on to its snapshot without referencing the
\* scope-leave event; SerializedHeadersAreDefined tells it from Referenced.
ReferencedNever(s) == TRUE

\* The serializer has referenced the static event of site s: its call of the
\* event's getter has returned, so the object is constructed.
Referenced(s) == events[s].constructed

\* The serializer's snapshot, first half: after referencing the scope-leave
\* event it calls EventRegistry::GetEventDefinitions, which takes mu_.
SaveSnapshotLock(t) ==
  /\ Referenced(ScopeLeaveSite)
  /\ GetEventDefinitionsLock(t)

\* A faulty disabled constructor that draws a wire-id as the enabled one
\* does; DisabledCtorLeavesRegistry tells it from EventCtorDisabled.
EventCtorDisabledDrawingId(t, s) ==
  /\ Idle(t) /\ Unclaimed(s)
  /\ ~SiteDef[s].kEnable
  /\ events' = [events EXCEPT ![s].constructed = TRUE]
  /\ next_event_id_' = next_event_id_ + 1
  /\ last' = Op("EventIf", t, s, FALSE)
  /\ UNCHANGED << zip, event_definitions_, mu_, ctor, snapshots,
                  bufferVars, guards, clockVars >>

\* EventIf<false>(...), ScopedEventIf<false>(...): empty constructors.
EventCtorDisabled(t, s) ==
  /\ Idle(t) /\ Unclaimed(s)
  /\ ~SiteDef[s].kEnable
  /\ events' = [events EXCEPT ![s].constructed = TRUE]
  /\ last' = Op("EventIf", t, s, FALSE)
  /\ UNCHANGED << zip, next_event_id_, event_definitions_, mu_, ctor, snapshots,
                  bufferVars, guards, clockVars >>

\* EventIf<false>(wire_id, event_class, flags, name_spec): empty; the
\* wire-id passed is dropped.
EventCtorDisabledWireId(t, s, wire_id) ==
  /\ SiteDef[s].event_class = "kInstance"
  /\ EventCtorDisabled(t, s)

\* EventIf<false>(event_class, flags, name_spec): empty.
EventCtorDisabledClass(t, s) ==
  /\ SiteDef[s].event_class = "kInstance"
  /\ EventCtorDisabled(t, s)

(* ------------------------------ runtime -------------------------------- *)

\* An enabling that writes no thread metadata; EnabledThreadHasNonEmptyBuffer
\* tells it from ThreadMetadata.
ThreadMetadataNone(b, timestamp) == b

\* The thread-metadata record that enabling a thread writes into its buffer.
ThreadMetadata(b, timestamp) ==
  AddEntry(AddEntry(b, kCreateZoneEventId), timestamp)

\* The buffer Runtime::EnableCurrentThread binds: the thread's registered
\* buffer, or a new one (the next in creation order) if it has none.
BufferToBind(t) ==
  IF thread_buffer[t] = NoBuf THEN Len(buffers) + 1 ELSE thread_buffer[t]

\* Runtime::EnableCurrentThread: creates the thread's buffer if absent, binds
\* it to the thread-local slot and emits the thread metadata into it.
EnableCurrentThread(t) ==
  /\ buffers' =
       IF thread_buffer[t] = NoBuf
       THEN Append(buffers, ThreadMetadata(NewEventBuffer, PlatformGetTimestampMicros32))
       ELSE [buffers EXCEPT ![thread_buffer[t]] =
               ThreadMetadata(@, PlatformGetTimestampMicros32)]
  /\ thread_buffer' = [thread_buffer EXCEPT ![t] = BufferToBind(t)]
  /\ tls' = [tls EXCEPT ![t] = BufferToBind(t)]

\* WTF_THREAD_ENABLE in a namespace whose toggle is enabledForNamespace:
\* calls Runtime::EnableCurrentThread only where the toggle is on.
ThreadEnable(t, enabledForNamespace) ==
  /\ Idle(t)
  /\ IF enabledForNamespace THEN HasRoom(BufferToBind(t), 2, MaxEntries) ELSE TRUE
  /\ IF enabledForNamespace
     THEN EnableCurrentThread(t)
     ELSE UNCHANGED bufferVars
  /\ last' = Op(IF enabledForNamespace THEN "EnableCurrentThread" ELSE "ThreadEnableOff",
                t, 0, buffers' # buffers)
  /\ UNCHANGED << zip, registryVars, guards, clockVars >>

\* WTF_THREAD_ENABLE written in a namespace: WTF_THREAD_ENABLE_IF with the
\* namespace's kWtfEnabledForNamespace as the condition.
ThreadEnableIn(t, namespace) ==
  ThreadEnable(t, kWtfEnabledForNamespace(namespace))

\* MacrosTest::EventsHaveBeenLogged on thread t.
EventsHaveBeenLogged(t) ==
  IF PlatformGetThreadLocalEventBuffer(t) = NoBuf THEN FALSE
  ELSE buffers[PlatformGetThreadLocalEventBuffer(t)].entries # <<>>

\* Runtime::DisableCurrentThread: unbinds the thread-local slot.
DisableCurrentThread(t) ==
  /\ Idle(t)
  /\ tls' = [tls EXCEPT ![t] = NoBuf]
  /\ last' = Op("DisableCurrentThread", t, 0, FALSE)
  /\ UNCHANGED << zip, registryVars, buffers, thread_buffer, guards, clockVars >>

\* MacrosTest::ClearEventBuffer: clears the bound buffer, if any.
ClearEventBuffer(t) ==
  /\ Idle(t)
  /\ buffers' = IF PlatformGetThreadLocalEventBuffer(t) # NoBuf
                THEN [buffers EXCEPT ![PlatformGetThreadLocalEventBuffer(t)] =
                        ClearBuffer(@)]
                ELSE buffers
  /\ last' = Op("clear", t, 0, buffers' # buffers)
  /\ UNCHANGED << zip, registryVars, thread_buffer, tls, guards, clockVars >>

\* A call of ArgTypeDef<T>::Emit on the buffer bound to the thread (the call
\* EmitArguments makes for each argument).
EmitArgument(t, type, value) ==
  /\ Idle(t)
  /\ PlatformGetThreadLocalEventBuffer(t) # NoBuf
  /\ HasRoom(PlatformGetThreadLocalEventBuffer(t), 1, MaxArgEntries)
  /\ buffers' = [buffers EXCEPT ![PlatformGetThreadLocalEventBuffer(t)] =
                   Emit(type, @, value)]
  /\ last' = Op("Emit", t, 0, TRUE)
  /\ UNCHANGED << zip, registryVars, thread_buffer, tls, guards, clockVars >>

(* ----------------------- signature materializer ----------------------- *)

\* The definition's materializer is called: it hands the name-spec's
\* argument names to ArgumentZipper<ArgTypes...>, which starts the zip at 0.
ArgumentZipper ==
  /\ zip.pc = "start"
  /\ zip' = [zip EXCEPT !.pc = "zip", !.arg_names = ArgNamesOf(zip.name_spec)]
  /\ UNCHANGED << registryVars, bufferVars, guards, clockVars, last >>

\* ZipArgumentsHelper<k, kSize>::Zip for k < kSize: zips the k-th type and
\* goes on with k + 1.
ZipArgumentsHelperZip ==
  /\ zip.pc = "zip"
  /\ zip.k < Len(zip.types)
  /\ zip' = [zip EXCEPT
               !.output = ZipArgument(zip.output, zip.k, zip.types[zip.k + 1],
                                      zip.arg_names).output,
               !.arg_names = ZipArgument(zip.output, zip.k, zip.types[zip.k + 1],
                                         zip.arg_names).arg_names,
               !.k = zip.k + 1]
  /\ UNCHANGED << registryVars, bufferVars, guards, clockVars, last >>

\* ZipArgumentsHelper<k, kSize>::Zip for k = kSize: the terminal
\* specialization, which does nothing.
ZipArgumentsHelperTerminal ==
  /\ zip.pc = "zip"
  /\ zip.k = Len(zip.types)
  /\ zip' = [zip EXCEPT !.pc = "done"]
  /\ UNCHANGED << registryVars, bufferVars, guards, clockVars, last >>

(* ------------------------------ emission ------------------------------- *)

\* A faulty InvokeSpecific of the disabled parameterization that emits as the
\* enabled one does; DisabledSiteEmitsNothing tells it from InvokeSpecificOn.
InvokeSpecificOnAnySite(bufs, s, event_buffer, args) ==
  [bufs EXCEPT ![event_buffer] =
     InvokeSpecific(@, events[s].wire_id_, PlatformGetTimestampMicros32,
                    SiteDef[s].ArgTypes, args)]

\* The buffers after EventIf<kEnable>::InvokeSpecific(event_buffer, args...)
\* on the event of site s.
InvokeSpecificOn(bufs, s, event_buffer, args) ==
  IF SiteDef[s].kEnable
  THEN [bufs EXCEPT ![event_buffer] =
          InvokeSpecific(@, events[s].wire_id_, PlatformGetTimestampMicros32,
                         SiteDef[s].ArgTypes, args)]
  ELSE bufs

\* A faulty Invoke that emits into the buffer the runtime registered for the
\* thread, bound or not; UnboundThreadEmitsNothing tells it from InvokeOn.
InvokeOnRegistered(bufs, t, s, args) ==
  IF SiteDef[s].kEnable
  THEN IF thread_buffer[t] # NoBuf
       THEN InvokeSpecificOn(bufs, s, thread_buffer[t], args)
       ELSE bufs
  ELSE bufs

\* The buffers after EventIf<kEnable>::Invoke(args...) on thread t.
InvokeOn(bufs, t, s, args) ==
  IF SiteDef[s].kEnable
  THEN IF PlatformGetThreadLocalEventBuffer(t) # NoBuf
       THEN InvokeSpecificOn(bufs, s, PlatformGetThreadLocalEventBuffer(t), args)
       ELSE bufs
  ELSE bufs

\* The buffers after ScopedEventIf<kEnable>::EnterSpecific(event_buffer, args...).
EnterSpecificOn(bufs, s, event_buffer, args) ==
  IF SiteDef[s].kEnable
  THEN [bufs EXCEPT ![event_buffer] =
          EnterSpecific(@, events[s].wire_id_, PlatformGetTimestampMicros32,
                        SiteDef[s].ArgTypes, args)]
  ELSE bufs

\* A faulty LeaveSpecific that writes the wire-id of the scoped event itself;
\* LeaveWritesScopeLeaveRecord tells it from LeaveSpecificOn.
LeaveSpecificOnOwnId(bufs, s, event_buffer) ==
  IF SiteDef[s].kEnable
  THEN [bufs EXCEPT ![event_buffer] =
          AddEntry(AddEntry(@, events[s].wire_id_), PlatformGetTimestampMicros32)]
  ELSE bufs

\* The buffers after ScopedEventIf<kEnable>::LeaveSpecific(event_buffer).
LeaveSpecificOn(bufs, s, event_buffer) ==
  IF SiteDef[s].kEnable
  THEN [bufs EXCEPT ![event_buffer] =
          LeaveSpecific(@, PlatformGetTimestampMicros32)]
  ELSE bufs

\* The buffers after ScopedEventIf<kEnable>::Enter(args...) on thread t.
EnterOn(bufs, t, s, args) ==
  IF SiteDef[s].kEnable
  THEN IF PlatformGetThreadLocalEventBuffer(t) # NoBuf
       THEN EnterSpecificOn(bufs, s, PlatformGetThreadLocalEventBuffer(t), args)
       ELSE bufs
  ELSE bufs

\* The buffers after ScopedEventIf<kEnable>::Leave() on thread t.
LeaveOn(bufs, t, s) ==
  IF SiteDef[s].kEnable
  THEN IF PlatformGetThreadLocalEventBuffer(t) # NoBuf
       THEN LeaveSpecificOn(bufs, s, PlatformGetThreadLocalEventBuffer(t))
       ELSE bufs
  ELSE bufs

\* A faulty emission path that waits until the registry lock is free;
\* EmissionTakesNoLock tells it from Usable.
UsableUnlocked(t, s, event_class) ==
  /\ Idle(t)
  /\ mu_ = NoThread
  /\ events[s].constructed
  /\ SiteDef[s].event_class = event_class

\* The event of site s can be used by thread t.
Usable(t, s, event_class) ==
  /\ Idle(t)
  /\ events[s].constructed
  /\ SiteDef[s].event_class = event_class

\* Thread t calls Invoke(args...) on the instance event of site s.
Invoke(t, s, args) ==
  /\ Usable(t, s, "kInstance")
  /\ HasRoom(tls[t], 2 + Len(args), MaxEntries)
  /\ buffers' = InvokeOn(buffers, t, s, args)
  /\ last' = Op("Invoke", t, s, buffers' # buffers)
  /\ UNCHANGED << zip, registryVars, thread_buffer, tls, guards, clockVars >>

\* Thread t calls InvokeSpecific(b, args...) on the instance event of site s.
InvokeSpecificCall(t, s, b, args) ==
  /\ Usable(t, s, "kInstance")
  /\ HasRoom(b, 2 + Len(args), MaxEntries)
  /\ buffers' = InvokeSpecificOn(buffers, s, b, args)
  /\ last' = Op("InvokeSpecific", t, s, buffers' # buffers)
  /\ UNCHANGED << zip, registryVars, thread_buffer, tls, guards, clockVars >>

\* Thread t calls Enter(args...) on the scoped event of site s.
Enter(t, s, args) ==
  /\ Usable(t, s, "kScoped")
  /\ HasRoom(tls[t], 2 + Len(args), MaxEntries)
  /\ buffers' = EnterOn(buffers, t, s, args)
  /\ last' = Op("Enter", t, s, buffers' # buffers)
  /\ UNCHANGED << zip, registryVars, thread_buffer, tls, guards, clockVars >>

\* Thread t calls EnterSpecific(b, args...) on the scoped event of site s.
EnterSpecificCall(t, s, b, args) ==
  /\ Usable(t, s, "kScoped")
  /\ HasRoom(b, 2 + Len(args), MaxEntries)
  /\ buffers' = EnterSpecificOn(buffers, s, b, args)
  /\ last' = Op("EnterSpecific", t, s, buffers' # buffers)
  /\ UNCHANGED << zip, registryVars, thread_buffer, tls, guards, clockVars >>

\* Thread t calls Leave() on the scoped event of site s.
Leave(t, s) ==
  /\ Usable(t, s, "kScoped")
  /\ HasRoom(tls[t], 2, MaxEntries)
  /\ buffers' = LeaveOn(buffers, t, s)
  /\ last' = Op("Leave", t, s, buffers' # buffers)
  /\ UNCHANGED << zip, registryVars, thread_buffer, tls, guards, clockVars >>

\* Thread t calls LeaveSpecific(b) on the scoped event of site s.
LeaveSpecificCall(t, s, b) ==
  /\ Usable(t, s, "kScoped")
  /\ HasRoom(b, 2, MaxEntries)
  /\ buffers' = LeaveSpecificOn(buffers, s, b)
  /\ last' = Op("LeaveSpecific", t, s, buffers' # buffers)
  /\ UNCHANGED << zip, registryVars, thread_buffer, tls, guards, clockVars >>

(* ---------------------------- scope guards ----------------------------- *)

\* A constructed AutoScopeIf: event_ (the site of its scoped event) and
\* event_buffer_, null until Enter.  pc tells whether Enter has been called.
\* The guard's history: ctor_tls and enter_tls are the thread-local buffer
\* when it was constructed and when Enter was called, enter_buf is the
\* buffer that received its enter record (NoBuf if none did).
NewAutoScope(t, s) ==
  [site |-> s, event_buffer_ |-> NoBuf, pc |-> "constructed",
   ctor_tls |-> tls[t], enter_tls |-> NoBuf, enter_buf |-> NoBuf]

\* A faulty capture that takes the buffer the runtime registered for the
\* thread, bound or not; SilentIfUnboundAtEnter tells it from AutoScopeCapture.
AutoScopeCaptureRegistered(t, s) ==
  IF SiteDef[s].kEnable THEN thread_buffer[t] ELSE NoBuf

\* The event_buffer_ that AutoScopeIf<kEnable>::Enter stores.
AutoScopeCapture(t, s) ==
  IF SiteDef[s].kEnable THEN PlatformGetThreadLocalEventBuffer(t) ELSE NoBuf

\* A faulty guard Enter that captures the buffer and writes no enter record;
\* GuardRecordsWellNested tells it from AutoScopeEnterOn.
AutoScopeEnterOnSilent(bufs, t, s, args) == bufs

\* The buffers after AutoScopeIf<kEnable>::Enter(args...) on thread t.
AutoScopeEnterOn(bufs, t, s, args) ==
  IF SiteDef[s].kEnable
  THEN IF AutoScopeCapture(t, s) # NoBuf
       THEN EnterSpecificOn(bufs, s, AutoScopeCapture(t, s), args)
       ELSE bufs
  ELSE bufs

\* A faulty scope exit that leaves into the buffer bound to the thread at
\* scope exit; GuardLeavesIntoCapturedBuffer tells it from AutoScopeExitOn.
AutoScopeExitOnBound(bufs, t, g) ==
  IF SiteDef[g.site].kEnable
  THEN IF PlatformGetThreadLocalEventBuffer(t) # NoBuf
       THEN LeaveSpecificOn(bufs, g.site, PlatformGetThreadLocalEventBuffer(t))
       ELSE bufs
  ELSE bufs

\* The buffers after ~AutoScopeIf<kEnable> of guard g of thread t.
AutoScopeExitOn(bufs, t, g) ==
  IF SiteDef[g.site].kEnable
  THEN IF g.event_buffer_ # NoBuf
       THEN LeaveSpecificOn(bufs, g.site, g.event_buffer_)
       ELSE bufs
  ELSE bufs

\* The buffer that a step changed, NoBuf if it changed none.
ChangedBuffer(before, after) ==
  IF \E b \in DOMAIN before : after[b] # before[b]
  THEN CHOOSE b \in DOMAIN before : after[b] # before[b]
  ELSE NoBuf

\* Thread t constructs a scope guard on the scoped event of site s.
AutoScopeCtor(t, s) ==
  /\ Usable(t, s, "kScoped")
  /\ TotalGuards(NumThreads) < MaxGuards
  /\ guards' = [guards EXCEPT ![t] = Append(@, NewAutoScope(t, s))]
  /\ last' = Op("AutoScopeIf", t, s, FALSE)
  /\ UNCHANGED << zip, registryVars, bufferVars, clockVars >>

\* Thread t calls Enter(args...) on its i-th live guard, once per guard.
AutoScopeEnter(t, i, args) ==
  /\ Idle(t)
  /\ i \in 1 .. Len(guards[t])
  /\ guards[t][i].pc = "constructed"
  /\ args \in ArgLists(SiteDef[guards[t][i].site].ArgTypes)
  /\ HasRoom(tls[t], 2 + Len(args), MaxScopeEntries)
  /\ buffers' = AutoScopeEnterOn(buffers, t, guards[t][i].site, args)
  /\ guards' = [guards EXCEPT ![t][i] =
                  [guards[t][i] EXCEPT
                     !.event_buffer_ = AutoScopeCapture(t, guards[t][i].site),
                     !.pc = "entered",
                     !.enter_tls = tls[t],
                     !.enter_buf = ChangedBuffer(buffers, buffers')]]
  /\ last' = [Op("AutoScopeIf::Enter", t, guards[t][i].site, buffers' # buffers)
                EXCEPT !.guard = guards'[t][i]]
  /\ UNCHANGED << zip, registryVars, thread_buffer, tls, clockVars >>

\* Thread t leaves the scope of its innermost live guard: ~AutoScopeIf.
AutoScopeDtor(t) ==
  /\ Idle(t)
  /\ Len(guards[t]) > 0
  /\ HasRoom(guards[t][Len(guards[t])].event_buffer_, 2, MaxScopeEntries)
  /\ buffers' = AutoScopeExitOn(buffers, t, guards[t][Len(guards[t])])
  /\ guards' = [guards EXCEPT ![t] = SubSeq(@, 1, Len(@) - 1)]
  /\ last' = [Op("~AutoScopeIf", t, guards[t][Len(guards[t])].site,
                   buffers' # buffers)
                EXCEPT !.guard = guards[t][Len(guards[t])]]
  /\ UNCHANGED << zip, registryVars, thread_buffer, tls, clockVars >>

(* --------------------------- specifications ---------------------------- *)

BufferIds == 1 .. Len(buffers)

\* Construction of the event objects, registration of their definitions and
\* snapshots of the registry.
NextRegistry ==
  \/ \E t \in Threads, s \in Sites : EventCtorNameSpec(t, s)
  \/ \E t \in Threads, s \in Sites, w \in ExplicitWireIds : EventCtorWireId(t, s, w)
  \/ \E t \in Threads : AddEventDefinitionLock(t)
  \/ \E t \in Threads : AddEventDefinition(t)
  \/ \E t \in Threads, s \in Sites : EventCtorDisabled(t, s)
  \/ \E t \in Threads : GetEventDefinitionsLock(t)
  \/ \E t \in Threads : GetEventDefinitions(t)

\* The sites whose events the program invokes, enters and leaves directly,
\* and those on which it constructs scope guards.
EventSites == {1, 2, 4, 5}

GuardSites == {3, 5}

\* The runtime, the clock and the events called directly.
NextEvents ==
  \/ Tick
  \/ \E t \in Threads, ns \in BOOLEAN : ThreadEnable(t, ns)
  \/ \E t \in Threads : DisableCurrentThread(t)
  \/ \E t \in Threads : ClearEventBuffer(t)
  \/ \E t \in Threads, s \in EventSites :
       \E args \in ArgLists(SiteDef[s].ArgTypes) : Invoke(t, s, args)
  \/ \E t \in Threads, s \in EventSites, b \in BufferIds :
       \E args \in ArgLists(SiteDef[s].ArgTypes) : InvokeSpecificCall(t, s, b, args)
  \/ \E t \in Threads, s \in EventSites :
       \E args \in ArgLists(SiteDef[s].ArgTypes) : Enter(t, s, args)
  \/ \E t \in Threads, s \in EventSites, b \in BufferIds :
       \E args \in ArgLists(SiteDef[s].ArgTypes) : EnterSpecificCall(t, s, b, args)
  \/ \E t \in Threads, s \in EventSites : Leave(t, s)
  \/ \E t \in Threads, s \in EventSites, b \in BufferIds : LeaveSpecificCall(t, s, b)

\* The runtime, the clock and the scope guards.
NextGuards ==
  \/ Tick
  \/ \E t \in Threads : ThreadEnable(t, TRUE)
  \/ \E t \in Threads : DisableCurrentThread(t)
  \/ \E t \in Threads, s \in GuardSites : AutoScopeCtor(t, s)
  \/ \E t \in Threads, i \in 1 .. MaxGuards :
       \E args \in AllArgLists : AutoScopeEnter(t, i, args)
  \/ \E t \in Threads : AutoScopeDtor(t)

\* The registry once one thread has constructed every site's event in the
\* order of the sites, passing wire_id at the site that passes one.
RECURSIVE DefinitionsUpTo(_, _)
DefinitionsUpTo(k, wire_id) ==
  IF k = 0 THEN <<>>
  ELSE IF ~SiteDef[k].kEnable THEN DefinitionsUpTo(k - 1, wire_id)
  ELSE Append(DefinitionsUpTo(k - 1, wire_id),
              CreateDefinition(
                IF SiteDef[k].ctor = "wire_id" THEN wire_id
                ELSE kFirstUserEventId
                     + Cardinality({j \in 1 .. (k - 1) :
                          SiteDef[j].kEnable /\ SiteDef[j].ctor = "name_spec"}),
                SiteDef[k].event_class, SiteDef[k].flags, SiteDef[k].name_spec,
                SiteDef[k].ArgTypes))

\* The wire-id that DefinitionsUpTo registers for site s.
StartupWireId(s, wire_id) ==
  IF ~SiteDef[s].kEnable THEN 0
  ELSE DefinitionsUpTo(s, wire_id)[Len(DefinitionsUpTo(s, wire_id))].wire_id

\* The program after its static events have been constructed.
InitConstructed ==
  /\ \E w \in {kScopeLeaveEventId} :
       /\ event_definitions_ = DefinitionsUpTo(Len(SiteDef), w)
       /\ events = [s \in Sites |->
                      [constructed |-> TRUE, wire_id_ |-> StartupWireId(s, w)]]
  /\ next_event_id_ = kFirstUserEventId
       + Cardinality({j \in Sites : SiteDef[j].kEnable /\ SiteDef[j].ctor = "name_spec"})
  /\ mu_ = NoThread
  /\ ctor = [t \in Threads |-> NoCtor]
  /\ snapshots = NoSnapshots
  /\ buffers = <<>>
  /\ thread_buffer = [t \in Threads |-> NoBuf]
  /\ tls = [t \in Threads |-> NoBuf]
  /\ guards = [t \in Threads |-> <<>>]
  /\ zip = NoZip
  /\ clock \in {[hi |-> 0, lo |-> l] : l \in ClockStarts}
  /\ ticks = 0
  /\ last = NoLast

\* The disabled declaration sites, and the enabled instance event beside them.
DisabledSites == {4, 5}

\* The runtime, the clock, an enabled event and everything that can be called
\* on the events and guards of the disabled sites.
NextDisabled ==
  \/ Tick
  \/ \E t \in Threads : ThreadEnable(t, TRUE)
  \/ \E t \in Threads : DisableCurrentThread(t)
  \/ \E t \in Threads, s \in DisabledSites \cup {1} :
       \E args \in ArgLists(SiteDef[s].ArgTypes) : Invoke(t, s, args)
  \/ \E t \in Threads, s \in DisabledSites, b \in BufferIds :
       \E args \in ArgLists(SiteDef[s].ArgTypes) : InvokeSpecificCall(t, s, b, args)
  \/ \E t \in Threads, s \in DisabledSites :
       \E args \in ArgLists(SiteDef[s].ArgTypes) : Enter(t, s, args)
  \/ \E t \in Threads, s \in DisabledSites, b \in BufferIds :
       \E args \in ArgLists(SiteDef[s].ArgTypes) : EnterSpecificCall(t, s, b, args)
  \/ \E t \in Threads, s \in DisabledSites : Leave(t, s)
  \/ \E t \in Threads, s \in DisabledSites, b \in BufferIds : LeaveSpecificCall(t, s, b)
  \/ \E t \in Threads, s \in DisabledSites : AutoScopeCtor(t, s)
  \/ \E t \in Threads, i \in 1 .. MaxGuards :
       \E args \in AllArgLists : AutoScopeEnter(t, i, args)
  \/ \E t \in Threads : AutoScopeDtor(t)

\* The sites inside namespaces that have a toggle.
NamespaceSites == {s \in Sites : SiteDef[s].namespace # GlobalNamespace}

\* The macros used inside the namespaces: WTF_THREAD_ENABLE, WTF_EVENT and
\* WTF_SCOPE (a guard, entered and left), with WTF_THREAD_ENABLE_IF(true)
\* and the clearing of a thread's buffer between them.  Guards are entered
\* within MaxEntries.
NextNamespaces ==
  \/ \E t \in Threads, namespace \in Namespaces : ThreadEnableIn(t, namespace)
  \/ \E t \in Threads : ThreadEnable(t, TRUE)
  \/ \E t \in Threads : ClearEventBuffer(t)
  \/ \E t \in Threads, s \in NamespaceSites :
       \E args \in ArgLists(SiteDef[s].ArgTypes) : Invoke(t, s, args)
  \/ \E t \in Threads, s \in NamespaceSites : AutoScopeCtor(t, s)
  \/ \E t \in Threads, i \in 1 .. MaxGuards :
       \E args \in AllArgLists :
         HasRoom(tls[t], 2 + Len(args), MaxEntries) /\ AutoScopeEnter(t, i, args)
  \/ \E t \in Threads : AutoScopeDtor(t)

\* Several threads, each enabled and emitting through Invoke, Enter and
\* Leave; a thread passes its own number as every argument (as the loops of
\* MacrosTest.BasicEndToEnd pass their counters).
NextThreads ==
  \/ Tick
  \/ \E t \in Threads : ThreadEnable(t, TRUE)
  \/ \E t \in Threads : DisableCurrentThread(t)
  \/ \E t \in Threads : ClearEventBuffer(t)
  \/ \E t \in Threads : Invoke(t, 1, <<t>>)
  \/ \E t \in Threads : Enter(t, 2, <<t, t>>)
  \/ \E t \in Threads : Leave(t, 2)

\* Argument encoding: enabled threads emit single arguments of every type.
NextArguments ==
  \/ \E t \in Threads :
       HasRoom(BufferToBind(t), 2, MaxArgEntries) /\ ThreadEnable(t, TRUE)
  \/ \E t \in Threads : ClearEventBuffer(t)
  \/ \E t \in Threads : \E type \in ArgTypes : \E value \in PassedValues(type) :
       EmitArgument(t, type, value)

\* The name-specs: all strings of at most MaxNameSpecLen characters.
NameSpecs == SeqsUpTo(NameSpecChars, MaxNameSpecLen)

\* The positions of the commas of s.
Commas(s) == {i \in 1 .. Len(s) : s[i] = ","}

\* The j-th of the parts the commas of s divide it into.
Fragment(s, j) ==
  LET first == IF j = 1 THEN 1
               ELSE 1 + CHOOSE p \in Commas(s) :
                          Cardinality({q \in Commas(s) : q < p}) = j - 2
      end == IF j = Cardinality(Commas(s)) + 1 THEN Len(s)
             ELSE (CHOOSE p \in Commas(s) :
                     Cardinality({q \in Commas(s) : q < p}) = j - 1) - 1
  IN SubSeq(s, first, end)

\* s without the spaces at its ends.
Stripped(s) ==
  LET I == {i \in 1 .. Len(s) : s[i] # " "}
  IN IF I = {} THEN <<>>
     ELSE SubSeq(s, CHOOSE i \in I : \A j \in I : i <= j,
                    CHOOSE i \in I : \A j \in I : j <= i)

\* What follows the first colon of the name-spec.
AfterColon(name_spec) ==
  LET C == {i \in 1 .. Len(name_spec) : name_spec[i] = ":"}
  IN IF C = {} THEN <<>>
     ELSE SubSeq(name_spec, 1 + (CHOOSE i \in C : \A j \in C : i <= j),
                 Len(name_spec))

\* The argument names a name-spec lists: none if the list is missing or
\* blank, else the comma-separated parts of the list, whitespace stripped.
GivenNames(name_spec) ==
  IF \A i \in 1 .. Len(AfterColon(name_spec)) : AfterColon(name_spec)[i] = " "
  THEN <<>>
  ELSE [j \in 1 .. Cardinality(Commas(AfterColon(name_spec))) + 1 |->
          Stripped(Fragment(AfterColon(name_spec), j))]

\* Every name the name-spec lists has a character that is not a space.
NamesNotBlank(name_spec) ==
  \A j \in 1 .. Len(GivenNames(name_spec)) : GivenNames(name_spec)[j] # <<>>

\* The materializer of an event definition with any name-spec whose names
\* are not blank and any type list, about to run; nothing else has run.
InitSignature ==
  /\ next_event_id_ = kFirstUserEventId
  /\ event_definitions_ = <<>>
  /\ mu_ = NoThread
  /\ events = [s \in Sites |-> [constructed |-> FALSE, wire_id_ |-> 0]]
  /\ ctor = [t \in Threads |-> NoCtor]
  /\ snapshots = NoSnapshots
  /\ buffers = <<>>
  /\ thread_buffer = [t \in Threads |-> NoBuf]
  /\ tls = [t \in Threads |-> NoBuf]
  /\ guards = [t \in Threads |-> <<>>]
  /\ zip \in {[pc |-> "start", name_spec |-> n, types |-> types,
                arg_names |-> <<>>, k |-> 0, output |-> <<>>] :
                n \in {m \in NameSpecs : NamesNotBlank(m)}, types \in TypeLists}
  /\ clock = [hi |-> 0, lo |-> 0]
  /\ ticks = 0
  /\ last = NoLast

\* Materialization of an argument signature.
NextSignature ==
  \/ ArgumentZipper
  \/ ZipArgumentsHelperZip
  \/ ZipArgumentsHelperTerminal

\* The sites whose events are constructed while other threads emit.
LockSites == {1, 3}

\* Registration and snapshots beside emission: threads construct the events
\* of LockSites and take snapshots of the registry while the other threads
\* use the events that are constructed.
NextLocks ==
  \/ \E t \in Threads, s \in LockSites : EventCtorNameSpec(t, s)
  \/ \E t \in Threads : AddEventDefinitionLock(t)
  \/ \E t \in Threads : AddEventDefinition(t)
  \/ \E t \in Threads : GetEventDefinitionsLock(t)
  \/ \E t \in Threads : GetEventDefinitions(t)
  \/ \E t \in Threads : ThreadEnable(t, TRUE)
  \/ \E t \in Threads : Invoke(t, 1, <<10>>)
  \/ \E t \in Threads : Enter(t, 3, <<>>)
  \/ \E t \in Threads : Leave(t, 3)
  \/ \E t \in Threads : AutoScopeCtor(t, 3)
  \/ \E t \in Threads, i \in 1 .. MaxGuards :
       HasRoom(tls[t], 2, MaxEntries) /\ AutoScopeEnter(t, i, <<>>)
  \/ \E t \in Threads :
       /\ Len(guards[t]) > 0
       /\ HasRoom(guards[t][Len(guards[t])].event_buffer_, 2, MaxEntries)
       /\ AutoScopeDtor(t)

\* Serialization beside first use: threads construct the events of LockSites
\* and emit through them while a thread serializes (references the
\* scope-leave event, then takes the snapshot of the registry).
NextSerialize ==
  \/ \E t \in Threads, s \in LockSites : EventCtorNameSpec(t, s)
  \/ \E t \in Threads : GetScopeLeaveEvent(t)
  \/ \E t \in Threads : AddEventDefinitionLock(t)
  \/ \E t \in Threads : AddEventDefinition(t)
  \/ \E t \in Threads : SaveSnapshotLock(t)
  \/ \E t \in Threads : GetEventDefinitions(t)
  \/ \E t \in Threads : ThreadEnable(t, TRUE)
  \/ \E t \in Threads : Invoke(t, 1, <<10>>)
  \/ \E t \in Threads : Enter(t, 3, <<>>)
  \/ \E t \in Threads : Leave(t, 3)

\* Construction through every constructor of both parameterizations, with
\* registration and snapshots.
NextConstructors ==
  \/ NextRegistry
  \/ \E t \in Threads, s \in Sites, w \in ExplicitWireIds :
       EventCtorDisabledWireId(t, s, w)
  \/ \E t \in Threads, s \in Sites : EventCtorDisabledClass(t, s)

\* The program after its static events have been constructed, the clock at 0.
InitAtClockZero == InitConstructed /\ clock.lo = 0

\* The program before any event is constructed, the clock at 0.
InitUnconstructedAtClockZero == Init /\ clock.lo = 0

\* Registration: threads construct the events of the sites in any order.
SpecRegistry == Init /\ [][NextRegistry]_vars

\* Emission: threads enable, disable and call the constructed events.
Spec == InitConstructed /\ [][NextEvents]_vars

\* Disabled sites: threads enable, disable and use the events and guards of
\* the disabled parameterization.
SpecDisabled == InitConstructed /\ [][NextDisabled]_vars

\* Namespaces: threads use the macros of toggled namespaces.
SpecNamespaces == InitAtClockZero /\ [][NextNamespaces]_vars

\* Threads: each thread emits into the buffer bound to it.
SpecThreads == InitConstructed /\ [][NextThreads]_vars

\* Scopes: threads enable, disable and run scope guards on the constructed
\* scoped events.
SpecGuards == InitConstructed /\ [][NextGuards]_vars

\* Signatures: the materializer of one definition runs.
SpecSignature == InitSignature /\ [][NextSignature]_vars

\* Locks: threads register events and take snapshots while others emit.
SpecLocks == InitUnconstructedAtClockZero /\ [][NextLocks]_vars

\* Serialization: threads register and emit while the trace is serialized.
SpecSerialize == InitUnconstructedAtClockZero /\ [][NextSerialize]_vars

\* Constructors: threads construct enabled and disabled events.
SpecConstructors == Init /\ [][NextConstructors]_vars

\* Arguments: threads emit single arguments into their buffers.
SpecArguments == InitAtClockZero /\ [][NextArguments]_vars

(* ------------------------------ properties ----------------------------- *)

\* s is an initial segment of t.
IsPrefix(s, t) == Len(s) <= Len(t) /\ SubSeq(t, 1, Len(s)) = s

\* The step appended record to buffer b and changed no other buffer.
Appended(b, record) ==
  /\ DOMAIN buffers' = DOMAIN buffers
  /\ buffers'[b].entries = buffers[b].entries \o record
  /\ \A c \in DOMAIN buffers : c # b => buffers'[c] = buffers[c]

\* The last n entries of buffer b.
TailOf(b, n) ==
  SubSeq(buffers[b].entries, Len(buffers[b].entries) - n + 1, Len(buffers[b].entries))

\* C1: after any interleaving of event constructions, no two EventDefinitions
\* held by the registry have the same wire-id.
UniqueWireIds ==
  \A i, j \in 1 .. Len(event_definitions_) :
    i # j => event_definitions_[i].wire_id # event_definitions_[j].wire_id

\* C2: every step other than clear() leaves the entries a buffer already
\* held in place and in order: an emission only appends at the tail.
EmissionsAppendAtTail ==
  [][last'.op # "clear" =>
       \A b \in DOMAIN buffers :
         /\ b \in DOMAIN buffers'
         /\ IsPrefix(buffers[b].entries, buffers'[b].entries)]_vars

\* C2 witness: an event has just been emitted into a buffer that already
\* held an earlier record.
EmittedBehindEarlierRecord ==
  /\ last.op \in {"Invoke", "Enter"}
  /\ last.wrote
  /\ Len(buffers[tls[last.thread]].entries) >= 5

\* C3: Invoke on an enabled instance event, and Enter on an enabled scoped
\* event, called with n arguments on a thread with a bound buffer, append to
\* that buffer exactly the wire-id of the event, the timestamp and the n
\* arguments in declaration order, and change no other buffer.
InvokeAppendsRecord ==
  [][\A t \in Threads, s \in EventSites :
       \A args \in ArgLists(SiteDef[s].ArgTypes) :
         /\ SiteDef[s].kEnable
         /\ tls[t] # NoBuf
         /\ last'.thread = t
         /\ Invoke(t, s, args) \/ Enter(t, s, args)
         => Appended(tls[t],
                     <<events[s].wire_id_, PlatformGetTimestampMicros32>> \o args)]_vars

\* C3 witness: a scoped event has just been entered with arguments (-1, 10)
\* on a thread whose buffer held the thread metadata.
EnteredWithTwoArguments ==
  /\ last.op = "Enter"
  /\ last.wrote
  /\ Len(buffers[tls[last.thread]].entries) >= 6
  /\ TailOf(tls[last.thread], 4)
       = <<events[2].wire_id_, PlatformGetTimestampMicros32, -1, 10>>

\* C4: Invoke, Enter and Leave called on a thread with no buffer bound to
\* its thread-local slot change no buffer.
UnboundThreadEmitsNothing ==
  [][/\ last'.op \in {"Invoke", "Enter", "Leave"}
     /\ tls[last'.thread] = NoBuf
     => buffers' = buffers]_vars

\* C4 witness: an enabled event has just been called on a thread that was
\* enabled earlier, holds a non-empty registered buffer and is now unbound.
CalledWhileUnbound ==
  /\ last.op \in {"Invoke", "Enter", "Leave"}
  /\ last.kEnable
  /\ tls[last.thread] = NoBuf
  /\ thread_buffer[last.thread] # NoBuf
  /\ Len(buffers[thread_buffer[last.thread]].entries) > 0

\* C5: no operation on an event, scoped event or scope guard of the disabled
\* parameterization changes a buffer, whether or not the thread is enabled.
DisabledSiteEmitsNothing ==
  [][~last'.kEnable => buffers' = buffers]_vars

\* C5 witness: a guard of a disabled site, entered on an enabled thread, has
\* just left its scope on an enabled thread.
DisabledGuardLeftOnEnabledThread ==
  /\ last.op = "~AutoScopeIf"
  /\ ~last.kEnable
  /\ last.guard.pc = "entered"
  /\ last.guard.enter_tls # NoBuf
  /\ tls[last.thread] # NoBuf

\* C6: every Leave (on a thread with a bound buffer) and every LeaveSpecific
\* of an enabled scoped event appends exactly two entries, the wire-id 2 and
\* the timestamp, whatever the event's own wire-id and argument list.
LeaveWritesScopeLeaveRecord ==
  [][\A t \in Threads, s \in EventSites :
       /\ SiteDef[s].kEnable /\ tls[t] # NoBuf /\ last'.thread = t /\ Leave(t, s)
          => Appended(tls[t], <<2, PlatformGetTimestampMicros32>>)
       /\ \A b \in BufferIds :
            SiteDef[s].kEnable /\ last'.thread = t /\ LeaveSpecificCall(t, s, b)
            => Appended(b, <<2, PlatformGetTimestampMicros32>>)]_vars

\* C6 witness: a scoped event with two arguments and a wire-id other than 2
\* has just been left and its leave record is at the tail of a buffer.
LeftScopedEvent ==
  /\ last.op \in {"Leave", "LeaveSpecific"}
  /\ last.kEnable
  /\ last.wrote
  /\ events[2].wire_id_ # 2
  /\ \E b \in BufferIds :
       /\ Len(buffers[b].entries) >= 4
       /\ TailOf(b, 2) = <<2, PlatformGetTimestampMicros32>>

\* C7: the scope exit of a guard whose enter record went into buffer B
\* appends one leave record to B, behind the enter record, and changes no
\* other buffer, whatever is bound to the thread at scope exit.
GuardLeavesIntoCapturedBuffer ==
  [][/\ last'.op = "~AutoScopeIf"
     /\ last'.guard.enter_buf # NoBuf
     => /\ Len(buffers[last'.guard.enter_buf].entries) >= 2
        /\ Appended(last'.guard.enter_buf,
                    <<kScopeLeaveEventId, PlatformGetTimestampMicros32>>)]_vars

\* C7 witness: a guard that had written its enter record has just left its
\* scope on a thread that was disabled in between.
GuardLeftAfterDisable ==
  /\ last.op = "~AutoScopeIf"
  /\ last.wrote
  /\ last.guard.enter_buf # NoBuf
  /\ tls[last.thread] = NoBuf

\* C8 as stated: a guard constructed while no buffer was bound to the thread
\* changes no buffer, neither in Enter nor at scope exit.
SilentIfUnboundAtConstruction ==
  [][/\ last'.op \in {"AutoScopeIf::Enter", "~AutoScopeIf"}
     /\ last'.guard.ctor_tls = NoBuf
     => buffers' = buffers]_vars

\* C8 amended: a guard whose Enter is called while no buffer is bound to the
\* thread, or is never called, changes no buffer, neither in Enter nor at
\* scope exit, whatever was bound when it was constructed.
SilentIfUnboundAtEnter ==
  [][/\ last'.op \in {"AutoScopeIf::Enter", "~AutoScopeIf"}
     /\ \/ last'.guard.pc = "constructed"
        \/ last'.guard.enter_tls = NoBuf
     => buffers' = buffers]_vars

\* C8 witness: a guard constructed on an enabled thread and entered while
\* the thread was disabled has just left its scope, the thread enabled again.
UnboundAtEnterLeftWhileBound ==
  /\ last.op = "~AutoScopeIf"
  /\ last.guard.pc = "entered"
  /\ last.guard.ctor_tls # NoBuf
  /\ last.guard.enter_tls = NoBuf
  /\ tls[last.thread] # NoBuf

\* The number of argument entries of the record whose wire-id is id.
ArgCountOf(id) ==
  IF id \in {kScopeLeaveEventId, kCreateZoneEventId} THEN 0
  ELSE Len(event_definitions_[
             CHOOSE i \in 1 .. Len(event_definitions_) :
               event_definitions_[i].wire_id = id].ArgTypes)

\* The wire-ids of the records of a buffer, in order.
RECURSIVE Headers(_)
Headers(entries) ==
  IF Len(entries) < 2 THEN <<>>
  ELSE <<entries[1]>>
       \o Headers(SubSeq(entries, 3 + ArgCountOf(entries[1]), Len(entries)))

\* The record with this wire-id is the enter of a scoped event.
IsScopedEnter(id) ==
  /\ id \notin {kScopeLeaveEventId, kCreateZoneEventId}
  /\ \E i \in 1 .. Len(event_definitions_) :
       /\ event_definitions_[i].wire_id = id
       /\ event_definitions_[i].event_class = "kScoped"

\* Scoped enters less scope-leaves among the first k records.
RECURSIVE ScopeDepth(_, _)
ScopeDepth(h, k) ==
  IF k = 0 THEN 0
  ELSE ScopeDepth(h, k - 1)
       + (IF IsScopedEnter(h[k]) THEN 1 ELSE 0)
       - (IF h[k] = kScopeLeaveEventId THEN 1 ELSE 0)

\* The live guards whose enter record is in buffer b.
OpenGuards(b) ==
  {<<t, i>> \in Threads \X (1 .. MaxGuards) :
     i <= Len(guards[t]) /\ guards[t][i].enter_buf = b}

\* C9: the records of scope guards are well nested: in every prefix of a
\* buffer the scope-leave records do not outnumber the scoped enter records,
\* the difference at the end being the number of guards still in scope (the
\* two are equal once every guard has left its scope).
GuardRecordsWellNested ==
  \A b \in BufferIds :
    /\ \A k \in 0 .. Len(Headers(buffers[b].entries)) :
         ScopeDepth(Headers(buffers[b].entries), k) >= 0
    /\ ScopeDepth(Headers(buffers[b].entries), Len(Headers(buffers[b].entries)))
         = Cardinality(OpenGuards(b))

\* C9 witness: two guards nested on one thread have both left their scopes;
\* the buffer holds the thread metadata, two enters and two leaves.
NestedGuardsBothLeft ==
  /\ \A t \in Threads : guards[t] = <<>>
  /\ \E b \in BufferIds :
       Headers(buffers[b].entries)
         = <<kCreateZoneEventId, events[3].wire_id_, events[3].wire_id_,
             kScopeLeaveEventId, kScopeLeaveEventId>>

\* C10: right after a thread has been enabled from an enabled declaration
\* scope, a buffer is bound to the thread and the buffer is not empty.
EnabledThreadHasNonEmptyBuffer ==
  last.op = "EnableCurrentThread" =>
    /\ PlatformGetThreadLocalEventBuffer(last.thread) # NoBuf
    /\ buffers[PlatformGetThreadLocalEventBuffer(last.thread)].entries # <<>>

\* C10 witness: a thread has just been enabled and its buffer holds nothing
\* but the metadata of this enabling (it was empty or cleared before).
JustEnabledOnEmptyBuffer ==
  /\ last.op = "EnableCurrentThread"
  /\ tls[last.thread] # NoBuf
  /\ buffers[tls[last.thread]].entries
       = <<kCreateZoneEventId, PlatformGetTimestampMicros32>>
  /\ ticks > 0

\* What a macro used by thread t in a namespace with a toggle does to the
\* buffers: nothing where the innermost toggle is off; where it is on and a
\* buffer is bound to the thread afterwards, that buffer has entries.
ToggleEffect(t, namespace) ==
  IF namespace[Len(namespace)] = "off"
  THEN buffers' = buffers /\ tls' = tls
  ELSE tls'[t] # NoBuf => EventsHaveBeenLogged(t)'

\* C11: the innermost enclosing namespace toggle decides: in a namespace
\* toggled off, thread-enable, events and scopes change no buffer and bind
\* none; in a namespace toggled on (also inside one toggled off) thread-enable
\* binds a buffer with entries, and events and scopes on an enabled thread
\* leave entries in its buffer.
InnermostToggleDecides ==
  [][\A t \in Threads :
       /\ \A namespace \in Namespaces \ {GlobalNamespace} :
            /\ last'.thread = t
            /\ last'.op \in {"EnableCurrentThread", "ThreadEnableOff"}
            /\ ThreadEnableIn(t, namespace)
            =>
              /\ ToggleEffect(t, namespace)
              /\ namespace[Len(namespace)] = "on" => tls'[t] # NoBuf
       /\ \A s \in NamespaceSites : \A args \in ArgLists(SiteDef[s].ArgTypes) :
            last'.thread = t /\ last'.op = "Invoke" /\ Invoke(t, s, args)
            => ToggleEffect(t, SiteDef[s].namespace)
       /\ /\ last'.thread = t
          /\ last'.op \in {"AutoScopeIf::Enter", "~AutoScopeIf"}
          /\ last'.guard.site \in NamespaceSites
          /\ last'.op = "~AutoScopeIf" => last'.guard.enter_tls # NoBuf
          => ToggleEffect(t, SiteDef[last'.guard.site].namespace)]_vars

\* C11 witness: an event declared in the namespace toggled on inside the one
\* toggled off has just been invoked on a thread whose buffer had been
\* cleared, and the buffer holds its record.
LoggedInEnabledInsideDisabled ==
  /\ last.op = "Invoke"
  /\ last.kEnable
  /\ SiteDef[1].namespace = EnabledInDisabledNamespace
  /\ EventsHaveBeenLogged(last.thread)
  /\ Len(buffers[tls[last.thread]].entries) = 3

\* C12: the registry is append-only and order-preserving: every snapshot
\* returned by GetEventDefinitions is a prefix of the snapshot returned after
\* it, and the latest snapshot is a prefix of what the registry holds.
SnapshotsArePrefixes ==
  /\ IsPrefix(snapshots.previous, snapshots.latest)
  /\ IsPrefix(snapshots.latest, event_definitions_)

\* C12 witness: two snapshots have been taken, the later one longer than the
\* earlier, which held definitions already; the registry has grown since.
LaterSnapshotLonger ==
  /\ Len(snapshots.previous) >= 1
  /\ Len(snapshots.latest) > Len(snapshots.previous)
  /\ Len(event_definitions_) > Len(snapshots.latest)

\* The enabled events whose construction has completed.
ConstructedEvents == {s \in Sites : SiteDef[s].kEnable /\ events[s].constructed}

\* The positions of the registry that hold a definition of the event of site s.
DefinitionsOf(s) ==
  {i \in 1 .. Len(event_definitions_) :
     event_definitions_[i].name_spec = SiteDef[s].name_spec}

\* C13: no registration is lost or duplicated: under any interleaving of
\* constructions and snapshots the registry holds exactly one definition per
\* constructed enabled event and no other, each with the wire-id of its event.
OneDefinitionPerEvent ==
  /\ Len(event_definitions_) = Cardinality(ConstructedEvents)
  /\ \A s \in ConstructedEvents :
       /\ Cardinality(DefinitionsOf(s)) = 1
       /\ \A i \in DefinitionsOf(s) :
            event_definitions_[i].wire_id = events[s].wire_id_

\* C13 witness: every enabled event has been constructed, in an order other
\* than that of the wire-ids drawn, and a snapshot was taken in between.
AllConstructedOutOfOrder ==
  /\ ConstructedEvents = {s \in Sites : SiteDef[s].kEnable}
  /\ Len(snapshots.latest) \in 1 .. (Len(event_definitions_) - 1)
  /\ \E i \in 1 .. (Len(event_definitions_) - 1) :
       event_definitions_[i].wire_id > event_definitions_[i + 1].wire_id
          /\ event_definitions_[i + 1].wire_id >= kFirstUserEventId

\* Every argument of every record of these entries is u.
RECURSIVE ArgumentsAre(_, _)
ArgumentsAre(entries, u) ==
  IF Len(entries) < 2 THEN TRUE
  ELSE /\ \A k \in 1 .. ArgCountOf(entries[1]) : entries[2 + k] = u
       /\ ArgumentsAre(SubSeq(entries, 3 + ArgCountOf(entries[1]), Len(entries)), u)

\* The buffer of every thread holds only records that carry the thread's
\* own number.
OnlyOwnRecords ==
  \A u \in Threads :
    thread_buffer[u] # NoBuf => ArgumentsAre(buffers[thread_buffer[u]].entries, u)

\* C14: threads do not write into each other's buffers: an Invoke, Enter or
\* Leave changes no buffer but the caller's, and the buffer of every thread
\* (the chunks of the trace, in the order of creation) holds only records
\* that the thread emitted.
ThreadsKeepToOwnBuffers ==
  [][/\ last'.op \in {"Invoke", "Enter", "Leave"} =>
          \A b \in DOMAIN buffers :
            b # thread_buffer[last'.thread] => buffers'[b] = buffers[b]
     /\ OnlyOwnRecords']_vars

\* C14 witness: two threads are enabled, each has emitted a record with an
\* argument into its buffer, and one has just emitted.
TwoThreadsHaveEmitted ==
  /\ last.op = "Invoke"
  /\ last.wrote
  /\ \A u \in 1 .. 2 :
       /\ tls[u] # NoBuf
       /\ Len(buffers[tls[u]].entries) = 3
       /\ buffers[tls[u]].entries[3] = u
  /\ tls[1] # tls[2]

\* The order of two 32-bit entries read as unsigned numbers (a negative
\* two's complement reading is an unsigned number of 2^31 or more).
UnsignedLeq(a, b) == IF (a < 0) = (b < 0) THEN a <= b ELSE b < 0

\* The timestamp entries of the records of a buffer, in order.
RECURSIVE Timestamps(_)
Timestamps(entries) ==
  IF Len(entries) < 2 THEN <<>>
  ELSE <<entries[2]>>
       \o Timestamps(SubSeq(entries, 3 + ArgCountOf(entries[1]), Len(entries)))

\* The places of a sequence of timestamps where the next one is smaller.
Descents(ts) ==
  {i \in 1 .. (Len(ts) - 1) : ~UnsignedLeq(ts[i], ts[i + 1])}

\* C15 as stated: within a buffer the timestamp entries of successive
\* records are non-decreasing.
TimestampsNonDecreasing ==
  \A b \in BufferIds : Descents(Timestamps(buffers[b].entries)) = {}

\* C15 amended: within a buffer the timestamp entries of successive records
\* decrease only where the clock's 32-bit truncation has wrapped: the number
\* of decreases is at most the number of times the microsecond clock has
\* passed a multiple of 2^32.
TimestampsDecreaseOnlyAtWrap ==
  \A b \in BufferIds :
    Cardinality(Descents(Timestamps(buffers[b].entries))) <= clock.hi

\* C15 witness: a buffer holds a record written before the clock passed 2^32
\* and a later record written after it, whose timestamp entry is smaller.
RecordsAcrossWrap ==
  /\ clock.hi = 1
  /\ \E b \in BufferIds :
       /\ Len(Timestamps(buffers[b].entries)) >= 2
       /\ Descents(Timestamps(buffers[b].entries)) # {}

\* The call EmitArgument(t, type, value) has just been made.
Emitted(t, type, value) ==
  /\ last'.op = "Emit"
  /\ last'.thread = t
  /\ EmitArgument(t, type, value)

\* C16: a signed 16-bit argument v, negative ones included, is written as one
\* 32-bit entry that holds v sign-extended to 32 bits (the two's complement
\* reading of that entry is v itself).
Int16EntryIsSignExtended ==
  [][\A t \in Threads : \A v \in PassedValues("int16") :
       Emitted(t, "int16", v)
         => buffers'[tls[t]].entries = Append(buffers[tls[t]].entries, v)]_vars

\* The entry at the tail of buffer b.
LastEntry(b) == b.entries[Len(b.entries)]

\* C17: interning is idempotent per buffer. An emitted non-empty string is
\* written as the id under which the buffer's string table holds it, the
\* table holds it exactly once, a string emitted before keeps the id it had
\* (the table only grows at its end, by at most the emitted string), and a
\* new string gets the next id, the first one being 1; so distinct strings
\* have distinct ids, in the order of their first insertion.
InterningIsIdempotent ==
  [][\A t \in Threads : \A s \in ArgValues("ascii") \ {""} :
       Emitted(t, "ascii", s)
         => LET old == buffers[tls[t]].string_table
                new == buffers'[tls[t]].string_table
                id == LastEntry(buffers'[tls[t]])
            IN /\ Len(buffers'[tls[t]].entries) = Len(buffers[tls[t]].entries) + 1
               /\ id \in 1 .. Len(new)
               /\ \A i \in 1 .. Len(new) : new[i] = s <=> i = id
               /\ IsPrefix(old, new)
               /\ IF \E i \in 1 .. Len(old) : old[i] = s
                  THEN new = old
                  ELSE new = Append(old, s)]_vars

\* A buffer into which one string was emitted, then another, then the first
\* again.
SameStringEmittedAgain ==
  /\ last.op = "Emit"
  /\ \E i \in 1 .. Len(buffers) :
       /\ buffers[i].entries = <<1, 2, 1>>
       /\ Len(buffers[i].string_table) = 2

\* C18: emitting the empty string or the null pointer writes 0 as the
\* argument entry and leaves the buffer's string table as it was.
EmptyOrNullWritesZero ==
  [][\A t \in Threads : \A s \in {"", "null"} :
       Emitted(t, "ascii", s)
         => /\ buffers'[tls[t]].entries = Append(buffers[tls[t]].entries, 0)
            /\ buffers'[tls[t]].string_table = buffers[tls[t]].string_table]_vars

\* A buffer whose table holds one string and into which that string and then
\* two empty or null strings were emitted.
EmptyEmittedAfterString ==
  /\ last.op = "Emit"
  /\ \E i \in 1 .. Len(buffers) :
       /\ buffers[i].entries = <<1, 0, 0>>
       /\ buffers[i].string_table = <<"a">>

EmissionOps == {"Invoke", "Enter", "Leave", "AutoScopeIf::Enter", "~AutoScopeIf"}

\* C20: emission takes no locks. While another thread holds the registry
\* lock mu_ (for a registration or a snapshot), an enabled thread that is
\* between calls can carry out Invoke, Enter and Leave on the constructed
\* events and the exit of its innermost scope guard; and every emission step
\* leaves mu_, the registry and the wire-id counter as they were.
EmissionTakesNoLock ==
  /\ [](\A t \in Threads :
          (/\ mu_ \notin {NoThread, t}
           /\ Idle(t)
           /\ tls[t] # NoBuf
           /\ HasRoom(tls[t], 3, MaxEntries))
            => /\ events[1].constructed => ENABLED Invoke(t, 1, <<10>>)
               /\ events[3].constructed
                    => (ENABLED Enter(t, 3, <<>>)) /\ (ENABLED Leave(t, 3))
               /\ Len(guards[t]) > 0 => ENABLED AutoScopeDtor(t))
  /\ [][last'.op \in EmissionOps
          => UNCHANGED << mu_, event_definitions_, next_event_id_ >>]_vars

\* A thread's Invoke has just written its record while another thread, in
\* the middle of a registration, holds the registry lock.
EmittedWhileLockHeld ==
  /\ last.op = "Invoke"
  /\ last.wrote
  /\ mu_ \notin {NoThread, last.thread}
  /\ ctor[mu_].stage = "locked"

\* The wire-ids of the definitions of a snapshot of the registry.
DefinedIds(definitions) ==
  {definitions[i].wire_id : i \in 1 .. Len(definitions)}

DisabledCtorLeavesRegistry ==
  [][last'.op = "EventIf" /\ ~last'.kEnable
       => UNCHANGED << event_definitions_, next_event_id_ >>]_vars

\* A disabled event has just been constructed, the last of the disabled
\* events and scoped events, after an enabled event drew a wire-id and
\* registered its definition.
DisabledConstructedAfterEnabled ==
  /\ last.op = "EventIf"
  /\ ~last.kEnable
  /\ \A s \in Sites : ~SiteDef[s].kEnable => events[s].constructed
  /\ Len(event_definitions_) > 0
  /\ next_event_id_ > kFirstUserEventId

====
